---- MODULE Spec2Model ----
(***************************************************************************)
(* Model of the clinical-data generator (generator.py and its helpers):    *)
(* the per-patient workflow process_patient_workflow, the interactive      *)
(* loop main with its batch run, the Identity Store (core/patient_db.py),  *)
(* the History Log (history_manager.py), the structural validator          *)
(* (doc_validator.py) and the filename convention of the report folder.    *)
(*                                                                         *)
(* Strings that the code splits on "-" are represented by the sequence of  *)
(* their dash-separated components: "DOC-300-001-A-NAF" is                 *)
(* <<"DOC","300","001","A","NAF">>.  Concatenating with "-" is \o,         *)
(* str.split("-") is the sequence itself and "-".join(parts[3:]) is a      *)
(* SubSeq.  Document contents are sequences of lines.                      *)
(***************************************************************************)
EXTENDS Integers, Sequences, FiniteSets, TLC

\* ------------------------------------------------------------------ bounds
MaxRuns == 2       \* executions of the dry-run script
MaxDocs == 3       \* documents the oracle returns over all dry runs
MaxMainRuns == 2   \* workflow runs started from the prompt of main
MaxMainDocs == 1   \* documents the oracle returns over all runs of main
MaxStored == 50    \* records of other patients in a store that starts filled
MaxFiles == 3      \* files in a folder handed to the scanner on its own

\* ------------------------------------------------------- input universes
CaseIds == {"300", "301"}
all_patient_ids == <<"300", "301">>
TargetIds == CaseIds \cup {"999"}
Titles == {"A", "B"}
Feedbacks == {"fix dates"}
Summaries == {"summary"}
NoValue == [none |-> TRUE]
\* every id process_patient_workflow can be called with
WorkflowIds == TargetIds \cup {"*"}

\* ------------------------------------------------------- generic helpers
Range(s) == {s[i] : i \in DOMAIN s}

Last(s) == s[Len(s)]

Front(s) == SubSeq(s, 1, Len(s) - 1)

SeqsUpTo(S, n) == UNION {[1..k -> S] : k \in 0..n}

\* dict.update: keys of new overlay the keys of old
DictUpdate(old, new) ==
    [k \in (DOMAIN old) \cup (DOMAIN new) |->
        IF k \in DOMAIN new THEN new[k] ELSE old[k]]

\* s.split("-"): the components of a string split on "-"
SplitDash(s) ==
    CASE s = "A-NAF" -> <<"A", "NAF">>
      [] s = "A-B"   -> <<"A", "B">>
      [] s = "300-1" -> <<"300", "1">>
      [] OTHER       -> <<s>>

\* f"{n:03d}"
Fmt03d(n) ==
    IF n < 10 THEN "00" \o ToString(n)
    ELSE IF n < 100 THEN "0" \o ToString(n)
    ELSE ToString(n)

MaxInt == 20

\* int(s): the number a decimal string denotes, NoInt when int() raises ValueError
NoInt == -1
ParseInt(s) ==
    IF \E n \in 0..MaxInt : s \in {ToString(n), "0" \o ToString(n), "00" \o ToString(n)}
    THEN CHOOSE n \in 0..MaxInt : s \in {ToString(n), "0" \o ToString(n), "00" \o ToString(n)}
    ELSE NoInt

\* ------------------------------------------------ report-folder filenames
\* A file of the report folder is the dash-split stem of a .pdf file.
\* f"DOC-{patient_id}-{seq_str}" followed by f"-{doc.title_hint}" and "-NAF"
DocIdentifier(patient_id, seq) == <<"DOC">> \o SplitDash(patient_id) \o <<Fmt03d(seq)>>

FilenameBase(patient_id, seq, title_hint, naf) ==
    DocIdentifier(patient_id, seq) \o SplitDash(title_hint)
        \o (IF naf THEN <<"NAF">> ELSE <<>>)

\* f"Clinical_Summary_Patient_{patient_id}.pdf"
SummaryFilename(patient_id) == <<"Clinical_Summary_Patient_" \o patient_id>>

\* f.endswith(".pdf") and f.startswith(f"DOC-{patient_id}-")
HasDocPrefix(patient_id, f) ==
    LET p == <<"DOC">> \o SplitDash(patient_id)
    IN  /\ Len(f) > Len(p)
        /\ SubSeq(f, 1, Len(p)) = p

\* title.endswith("-NAF")
EndsWithNAF(title) == Len(title) >= 2 /\ Last(title) = "NAF"

\* "-".join(parts[3:]) with a trailing "-NAF" removed
ExtractTitle(parts) ==
    LET title == SubSeq(parts, 4, Len(parts))
    IN  IF EndsWithNAF(title) THEN Front(title) ELSE title

\* One file as scan_existing_documents reads it: indexed exactly when it has
\* the prefix, at least 4 parts and an integer third part.
ScanEntry(patient_id, f) ==
    IF HasDocPrefix(patient_id, f) /\ Len(f) >= 4 /\ ParseInt(f[3]) # NoInt
    THEN [ok |-> TRUE, seq |-> ParseInt(f[3]), title |-> ExtractTitle(f), filename |-> f]
    ELSE [ok |-> FALSE, seq |-> 0, title |-> <<>>, filename |-> f]

SetMax(S) == IF S = {} THEN 0 ELSE CHOOSE m \in S : \A x \in S : x <= m

\* scan_existing_documents: the highest sequence and the indexed entries
scan_existing_documents(patient_id, folder) ==
    LET entries == {e \in {ScanEntry(patient_id, f) : f \in folder} : e.ok}
    IN  [max_seq |-> SetMax({e.seq : e \in entries}),
         docs    |-> entries]

\* A directory entry is [stem, ext]; os.listdir returns them as a sequence.
\* a slip that keeps the first file of a title instead of the last
scan_step_FirstWins(patient_id, acc, f) ==
    LET e == ScanEntry(patient_id, f.stem)
    IN  IF f.ext = "pdf" /\ e.ok
        THEN [max_seq |-> IF e.seq > acc.max_seq THEN e.seq ELSE acc.max_seq,
              existing_docs_map |->
                  DictUpdate(e.title :> [seq |-> e.seq, filename |-> f],
                             acc.existing_docs_map)]
        ELSE acc

\* one turn of the loop of scan_existing_documents over os.listdir
scan_step(patient_id, acc, f) ==
    LET e == ScanEntry(patient_id, f.stem)
    IN  IF f.ext = "pdf" /\ e.ok
        THEN [max_seq |-> IF e.seq > acc.max_seq THEN e.seq ELSE acc.max_seq,
              existing_docs_map |->
                  DictUpdate(acc.existing_docs_map,
                             e.title :> [seq |-> e.seq, filename |-> f])]
        ELSE acc

\* scan_existing_documents on a listing: (max_seq, existing_docs_map), the
\* map a dict keyed by the extracted title
RECURSIVE scan_listing(_, _)
scan_listing(patient_id, listing) ==
    IF listing = <<>> THEN [max_seq |-> 0, existing_docs_map |-> <<>>]
    ELSE scan_step(patient_id, scan_listing(patient_id, Front(listing)),
                   Last(listing))

\* the title list process_patient_workflow collects before the oracle call
ExistingTitles(patient_id, folder) ==
    {ExtractTitle(f) : f \in {g \in folder : HasDocPrefix(patient_id, g) /\ Len(g) >= 4}}

\* ---------------------------------------------------- structural validator
StartMarker == "--- REPORT START ---"
EndMarker == "--- REPORT END ---"
MetadataMarker == "[REPORT_METADATA]"
required_keys == <<"PATIENT_ID:", "MRN:", "PATIENT_NAME:", "DOB:", "REPORT_DATE:">>
VALIDATION_CONFIG ==
    [allow_markdown_bold |-> TRUE, allow_triple_quotes |-> FALSE,
     require_metadata_block |-> TRUE]

\* x in document_text
Contains(document_text, x) == x \in Range(document_text)

ErrIf(cond, msg) == IF cond THEN <<msg>> ELSE <<>>

RECURSIVE KeyErrors(_, _)
KeyErrors(document_text, i) ==
    IF i > Len(required_keys) THEN <<>>
    ELSE ErrIf(~Contains(document_text, required_keys[i]),
               "Missing Metadata Field: " \o required_keys[i])
         \o KeyErrors(document_text, i + 1)

\* a slip that returns as soon as a marker is found missing
validate_errors_ShortCircuit(document_text) ==
    IF ~Contains(document_text, StartMarker) THEN <<"Missing Start Marker">>
    ELSE IF ~Contains(document_text, EndMarker) THEN <<"Missing End Marker">>
    ELSE ErrIf(VALIDATION_CONFIG.require_metadata_block
                  /\ ~Contains(document_text, MetadataMarker),
               "Missing [REPORT_METADATA]")
         \o KeyErrors(document_text, 1)
         \o ErrIf(~VALIDATION_CONFIG.allow_triple_quotes
                     /\ Contains(document_text, "\"\"\""),
                  "Triple quotes detected")
         \o ErrIf(Contains(document_text, "Redacted"), "Redaction detected")
         \o ErrIf(~VALIDATION_CONFIG.allow_markdown_bold
                     /\ Contains(document_text, "**"),
                  "Markdown bold detected")

validate_errors(document_text) ==
    ErrIf(~Contains(document_text, StartMarker), "Missing Start Marker")
    \o ErrIf(~Contains(document_text, EndMarker), "Missing End Marker")
    \o ErrIf(VALIDATION_CONFIG.require_metadata_block
                /\ ~Contains(document_text, MetadataMarker),
             "Missing [REPORT_METADATA]")
    \o KeyErrors(document_text, 1)
    \o ErrIf(~VALIDATION_CONFIG.allow_triple_quotes
                /\ Contains(document_text, "\"\"\""),
             "Triple quotes detected")
    \o ErrIf(Contains(document_text, "Redacted"), "Redaction detected")
    \o ErrIf(~VALIDATION_CONFIG.allow_markdown_bold /\ Contains(document_text, "**"),
             "Markdown bold detected")

validate_structure(document_text) ==
    [is_valid |-> validate_errors(document_text) = <<>>,
     errors   |-> validate_errors(document_text)]

\* contents the oracle and the repair call return
ValidContent ==
    <<StartMarker, MetadataMarker, "PATIENT_ID:", "MRN:", "PATIENT_NAME:", "DOB:",
      "REPORT_DATE:", "text", EndMarker>>
NoEndContent ==
    <<StartMarker, MetadataMarker, "PATIENT_ID:", "MRN:", "PATIENT_NAME:", "DOB:",
      "REPORT_DATE:", "text">>
Contents == {ValidContent, NoEndContent}

\* the tokens the rules look for, in document order
RuleTokens ==
    <<StartMarker, MetadataMarker, "PATIENT_ID:", "MRN:", "PATIENT_NAME:", "DOB:",
      "REPORT_DATE:", "\"\"\"", "Redacted", "**", EndMarker>>

\* document texts: any selection of the tokens, with or without other text
\* in front of the first and behind the last
Margins == {<<>>, <<"junk">>}
ValidatorInputs ==
    {pre \o SelectSeq(RuleTokens, LAMBDA t : t \in S) \o post :
        S \in SUBSET Range(RuleTokens), pre \in Margins, post \in Margins}

\* --------------------------------------------------------- Identity Store
\* patients_db.json: an ordered map, kept as a sequence of [id, data] entries
IdentityFields ==
    {"first_name", "last_name", "dob", "gender", "address", "telecom", "provider"}

Persona1 ==
    [first_name |-> "Jerry", last_name |-> "Seinfeld", dob |-> "1954-04-29",
     gender |-> "male", address |-> "129 W 81st St", telecom |-> "555-0101",
     provider |-> "Dr. Kramer", bio_narrative |-> "bio one"]
Persona2 ==
    [first_name |-> "Leslie", last_name |-> "Knope", dob |-> "1975-01-18",
     gender |-> "female", address |-> "Pawnee", telecom |-> "555-0202",
     provider |-> "Dr. Perkins", bio_narrative |-> "bio two"]
Personas == {Persona1, Persona2}

FullName(p) == p.first_name \o " " \o p.last_name

HasKey(store, key) == \E i \in DOMAIN store : store[i].id = key

KeyIndex(store, key) == CHOOSE i \in DOMAIN store : store[i].id = key

\* load_patient: data.get(key)
load_patient(store, patient_id) ==
    IF HasKey(store, patient_id) THEN store[KeyIndex(store, patient_id)].data
    ELSE NoValue

\* save_patient: create the entry if missing, then dict.update it
save_patient(store, patient_id, patient_data) ==
    IF HasKey(store, patient_id)
    THEN [store EXCEPT ![KeyIndex(store, patient_id)].data =
              DictUpdate(@, patient_data)]
    ELSE Append(store, [id |-> patient_id, data |-> DictUpdate(<<>>, patient_data)])

RECURSIVE NamesFrom(_, _)
NamesFrom(store, i) ==
    IF i > Len(store) THEN <<>>
    ELSE (IF store[i].data.first_name # "" /\ store[i].data.last_name # ""
          THEN <<FullName(store[i].data)>> ELSE <<>>)
         \o NamesFrom(store, i + 1)

\* get_all_patient_names
get_all_patient_names(store) == NamesFrom(store, 1)

\* a store that already holds the records of n other patients
RECURSIVE StoreOf(_)
StoreOf(n) ==
    IF n = 0 THEN <<>>
    ELSE Append(StoreOf(n - 1),
                [id |-> ToString(n),
                 data |-> [Persona1 EXCEPT !.first_name = "Extra",
                                           !.last_name = ToString(n)]])

\* ------------------------------------------------- identity constraint
\* excluded_names[:50]
ExclusionCap == 50

CHARACTER_UNIVERSES ==
    {"Seinfeld", "The Office", "Parks and Rec", "Star Wars", "Marvel",
     "Harry Potter", "Friends", "Lord of the Rings", "Breaking Bad",
     "Game of Thrones", "Succession", "The Sopranos", "Grey's Anatomy",
     "House MD", "Scrubs", "2 Broke Girls", "The Big Bang Theory",
     "Brooklyn 99", "Superstore"}

\* a slip that joins the whole list of used names
identity_constraint_NoCap(existing_persona, excluded_names) ==
    IF existing_persona # NoValue
    THEN [kind |-> "lock",
          name |-> FullName(existing_persona),
          dob |-> existing_persona.dob, gender |-> existing_persona.gender,
          address |-> existing_persona.address,
          telecom |-> existing_persona.telecom,
          provider |-> existing_persona.provider]
    ELSE [kind |-> "generate", used |-> excluded_names]

\* the identity part of the prompt of generate_clinical_data: the lock on the
\* stored demographics, or the diversity rules with the used names
identity_constraint(existing_persona, excluded_names) ==
    IF existing_persona # NoValue
    THEN [kind |-> "lock",
          name |-> FullName(existing_persona),
          dob |-> existing_persona.dob, gender |-> existing_persona.gender,
          address |-> existing_persona.address,
          telecom |-> existing_persona.telecom,
          provider |-> existing_persona.provider]
    ELSE [kind |-> "generate",
          used |-> IF Len(excluded_names) <= ExclusionCap THEN excluded_names
                   ELSE SubSeq(excluded_names, 1, ExclusionCap)]

\* the same with the universe that random.choice(CHARACTER_UNIVERSES) drew
identity_prompt(existing_persona, excluded_names, selected_universe) ==
    LET c == identity_constraint(existing_persona, excluded_names)
    IN  IF c.kind = "lock" THEN c
        ELSE [kind |-> c.kind, universe |-> selected_universe, used |-> c.used]

\* ------------------------------------------------------------ History Log
\* append_history: one block of feedback and change summary per call
HistoryEntry(feedback, changes_summary) ==
    [feedback |-> IF feedback # "" THEN feedback ELSE "None",
     changes  |-> changes_summary]

\* a slip that opens the log with 'w': the new entry replaces the log
append_history_Overwrite(log, patient_id, feedback, changes_summary) ==
    [log EXCEPT ![patient_id] = <<HistoryEntry(feedback, changes_summary)>>]

append_history(log, patient_id, feedback, changes_summary) ==
    [log EXCEPT ![patient_id] = Append(@, HistoryEntry(feedback, changes_summary))]

\* get_history
get_history(log, patient_id) == log[patient_id]


\* ------------------------------------------- legacy folder documents/{id}
OldSummaryName(patient_id) == "Patient_" \o patient_id \o "_Clinical_Summary.pdf"
NewSummaryName(patient_id) == "Clinical_Summary_Patient_" \o patient_id \o ".pdf"
OtherPdfName == "report.pdf"

\* "clinical_summary" in f.lower()
IsSummaryName(f) ==
    \E id \in WorkflowIds : f \in {OldSummaryName(id), NewSummaryName(id)}

\* check_patient_sync_status, the rename of an old summary
SyncMigrate(patient_id, folder) ==
    IF OldSummaryName(patient_id) \in folder /\ NewSummaryName(patient_id) \notin folder
    THEN (folder \ {OldSummaryName(patient_id)}) \cup {NewSummaryName(patient_id)}
    ELSE folder

\* check_patient_sync_status, the returned flag
check_patient_sync_status(patient_id, folder) ==
    Cardinality({f \in SyncMigrate(patient_id, folder) : ~IsSummaryName(f)}) > 0

\* ------------------------------------------------------------ oracle data
Documents == [title_hint : Titles, content : Contents]

\* the documents the oracle returns to a run started by main
MainDocuments == [title_hint : {"A"}, content : {ValidContent}]

\* documents of an oracle that also returns a title ending in "-NAF"
DashedDocuments == [title_hint : {"A", "A-NAF"}, content : Contents]

\* the persona the oracle returns to a dry run
DryRunPersonas == {Persona1}

\* ClinicalDataPayload: a persona out of personas, at most n documents out of docs
Payloads(personas, docs, n) ==
    [changes_summary : Summaries,
     patient_persona : personas,
     documents       : SeqsUpTo(docs, n)]

\* mode_map of main
mode_map ==
    [m1 |-> [summary |-> TRUE,  reports |-> TRUE,  persona |-> TRUE],
     m2 |-> [summary |-> TRUE,  reports |-> TRUE,  persona |-> FALSE],
     m3 |-> [summary |-> TRUE,  reports |-> FALSE, persona |-> FALSE],
     m4 |-> [summary |-> FALSE, reports |-> TRUE,  persona |-> FALSE],
     m5 |-> [summary |-> FALSE, reports |-> FALSE, persona |-> TRUE]]
Modes == Range(mode_map)
DefaultMode == [summary |-> TRUE, reports |-> TRUE, persona |-> TRUE]

Outcomes == {"ok", "raise"}

\* ------------------------------------------------------------------ state
VARIABLES
    db,           \* Identity Store, core/patients_db.json
    logs,         \* History Log, logs/{id}.txt
    reports,      \* REPORTS_DIR/{id}: the stems of its .pdf files
    persona_dir,  \* PERSONA_DIR: the persona PDFs, as <<id, name>>
    documents,    \* documents/{id}, the folder check_patient_sync_status reads
    mn,           \* frame of main
    wf,           \* frame of process_patient_workflow
    obs,          \* observations of the current run (history variables)
    call          \* frame of a function that is called on its own

vars == <<db, logs, reports, persona_dir, documents, mn, wf, obs, call>>

\* no function is called on its own
NoCall == [pc |-> "none", fn |-> "", arg |-> <<>>, ret |-> NoValue]

NoResult == [none |-> TRUE]

IdleFrame ==
    [pc |-> "idle", patient_id |-> "", feedback |-> "", excluded_names |-> <<>>,
     generation_mode |-> DefaultMode, history_txt |-> <<>>,
     existing_patient |-> NoValue, existing_titles |-> {},
     identity_constraint |-> NoValue,
     result |-> NoResult, i |-> 0, doc_seq_counter |-> 0,
     p_full_name |-> NoValue, ret |-> NoValue, why |-> ""]

\* entry of process_patient_workflow
CallFrame(patient_id, feedback, excluded_names, generation_mode) ==
    [IdleFrame EXCEPT !.pc = "load_case", !.patient_id = patient_id,
                      !.feedback = feedback, !.excluded_names = excluded_names,
                      !.generation_mode = generation_mode]

\* what is recorded when a run starts
StartObs(patient_id) ==
    [runs |-> obs.runs + 1, docs |-> obs.docs, db0 |-> db, logs0 |-> logs,
     reports0 |-> reports, persona0 |-> persona_dir, rendered |-> <<>>,
     invoked |-> Append(obs.invoked, patient_id), created |-> obs.created]

\* what is kept once the caller has taken the result
EndObs ==
    [runs |-> obs.runs, docs |-> obs.docs, db0 |-> <<>>, logs0 |-> <<>>,
     reports0 |-> <<>>, persona0 |-> {}, rendered |-> <<>>, invoked |-> obs.invoked,
     created |-> obs.created]

DocumentsInit ==
    {[id \in WorkflowIds |-> {}],
     [id \in WorkflowIds |->
        IF id = "300" THEN {OtherPdfName}
        ELSE IF id = "301" THEN {OldSummaryName("301")} ELSE {}]}

InitRest ==
    /\ logs = [id \in WorkflowIds |-> <<>>]
    /\ reports = [id \in WorkflowIds |-> {}]
    /\ persona_dir = {}
    /\ documents \in DocumentsInit
    /\ mn = [pc |-> "prompt", target_input |-> "", bound |-> FALSE, feedback |-> "",
             generation_mode |-> DefaultMode, current_names |-> <<>>,
             p |-> 0, count |-> 0]
    /\ wf = IdleFrame
    /\ obs = [runs |-> 0, docs |-> 0, db0 |-> <<>>, logs0 |-> <<>>, reports0 |-> <<>>,
              persona0 |-> {}, rendered |-> <<>>, invoked |-> <<>>, created |-> <<>>]

\* a first start: the store is empty
Init == db = <<>> /\ call = NoCall /\ InitRest

\* a start with MaxStored patients on record that are no longer in the plan
InitFullStore == db = StoreOf(MaxStored) /\ call = NoCall /\ InitRest

\* the dry-run script never looks at documents/{id}
InitDryRun == Init /\ \A id \in WorkflowIds : documents[id] = {}


\* ------------------------------------------------ process_patient_workflow
Name(n) == [name |-> n]

\* "return" / "return None", with the step that caused it
ReturnNone(frame, why) == [frame EXCEPT !.pc = "returned", !.ret = NoValue, !.why = why]

\* an exception that leaves process_patient_workflow (raised outside its try)
Propagate(frame, why) == [frame EXCEPT !.pc = "raised", !.ret = NoValue, !.why = why]

\* a slip that goes on when load_patient_case found no case
wf_load_case_NoEarlyReturn ==
    /\ wf.pc = "load_case"
    /\ \E o \in Outcomes :
        wf' = IF o = "raise" THEN Propagate(wf, "load_case")
              ELSE [wf EXCEPT !.pc = "load_context"]
    /\ UNCHANGED <<db, logs, reports, persona_dir, documents, mn, obs, call>>

\* load_patient_case: raises when the plan file is missing, None when the id is absent
wf_load_case ==
    /\ wf.pc = "load_case"
    /\ \E o \in Outcomes :
        wf' = IF o = "raise" THEN Propagate(wf, "load_case")
              ELSE IF wf.patient_id \in CaseIds
                   THEN [wf EXCEPT !.pc = "load_context"]
                   ELSE ReturnNone(wf, "case_not_found")
    /\ UNCHANGED <<db, logs, reports, persona_dir, documents, mn, obs, call>>

\* get_history, load_patient and the listing of the report folder
wf_load_context ==
    /\ wf.pc = "load_context"
    /\ \E o \in Outcomes :
        wf' = IF o = "raise" THEN Propagate(wf, "load_context")
              ELSE [wf EXCEPT !.pc = "oracle",
                              !.history_txt = get_history(logs, wf.patient_id),
                              !.existing_patient = load_patient(db, wf.patient_id),
                              !.existing_titles =
                                  ExistingTitles(wf.patient_id, reports[wf.patient_id])]
    /\ UNCHANGED <<db, logs, reports, persona_dir, documents, mn, obs, call>>

\* ai_engine.generate_clinical_data inside the try
wf_oracle(personas, docs, max_docs) ==
    /\ wf.pc = "oracle"
    /\ \/ /\ wf' = ReturnNone([wf EXCEPT !.identity_constraint =
                                  identity_constraint(wf.existing_patient,
                                                      wf.excluded_names)],
                              "oracle")
          /\ obs' = obs
       \/ \E r \in Payloads(personas, docs, max_docs - obs.docs) :
            /\ wf' = [wf EXCEPT !.pc = "history", !.result = r,
                                !.identity_constraint =
                                    identity_constraint(wf.existing_patient,
                                                        wf.excluded_names)]
            /\ obs' = [obs EXCEPT !.docs = @ + Len(r.documents)]
    /\ UNCHANGED <<db, logs, reports, persona_dir, documents, mn, call>>

\* history_manager.append_history(patient_id, feedback, result.changes_summary)
wf_append_history ==
    /\ wf.pc = "history"
    /\ \E o \in Outcomes :
        IF o = "raise"
        THEN /\ wf' = ReturnNone(wf, "history")
             /\ logs' = logs
        ELSE /\ wf' = [wf EXCEPT !.pc = "save"]
             /\ logs' = append_history(logs, wf.patient_id, wf.feedback,
                                       wf.result.changes_summary)
    /\ UNCHANGED <<db, reports, persona_dir, documents, mn, obs, call>>

\* where the run goes after the store is saved: the report loop or past it
AfterSave(frame) ==
    IF frame.generation_mode.reports /\ frame.result.documents # <<>>
    THEN [frame EXCEPT !.pc = "documents", !.i = 1, !.doc_seq_counter = 1]
    ELSE [frame EXCEPT !.pc = "persona"]

\* patient_db.save_patient(patient_id, result.patient_persona.model_dump())
wf_save_patient ==
    /\ wf.pc = "save"
    /\ \E o \in Outcomes :
        IF o = "raise"
        THEN /\ wf' = ReturnNone(wf, "save")
             /\ db' = db
        ELSE /\ wf' = AfterSave(wf)
             /\ db' = save_patient(db, wf.patient_id, wf.result.patient_persona)
    /\ UNCHANGED <<logs, reports, persona_dir, documents, mn, obs, call>>

\* a slip that numbers the documents of a run from 000
DocSequence_FromZero(frame) == frame.doc_seq_counter - 1

\* the sequence number a document of the loop is rendered under
DocSequence(frame) == frame.doc_seq_counter

\* a slip that marks a document as soon as its first validation fails
MarkNAF_OnFirstFailure(valid1, valid2) == ~valid1

\* "-NAF" is appended when the document is invalid before and after the fix
MarkNAF(valid1, valid2) == ~valid1 /\ ~valid2

\* a slip that sends every document to the repair call, valid or not
NeedsRepair_Always(valid1) == TRUE

\* "if not is_valid:" - the repair call follows a failed first validation
NeedsRepair(valid1) == ~valid1

\* one iteration of "for doc in result.documents": validation, the single
\* repair call, the second validation, the filename and create_patient_pdf
wf_document ==
    /\ wf.pc = "documents"
    /\ LET doc == wf.result.documents[wf.i]
           v1  == validate_structure(doc.content)
       IN  \E fixed \in Contents, o \in Outcomes :
             LET repair  == NeedsRepair(v1.is_valid)
                 content == IF repair THEN fixed ELSE doc.content
                 v2      == validate_structure(content)
                 naf     == MarkNAF(v1.is_valid, v2.is_valid)
                 base    == FilenameBase(wf.patient_id, DocSequence(wf),
                                         doc.title_hint, naf)
                 seen    == [i |-> wf.i, title_hint |-> doc.title_hint,
                             valid1 |-> v1.is_valid,
                             repaired |-> repair,
                             repairs |-> IF repair THEN 1 ELSE 0,
                             validations |-> IF repair THEN 2 ELSE 1,
                             content |-> content,
                             valid2 |-> v2.is_valid,
                             filename |-> base, written |-> o = "ok"]
                 next    == [wf EXCEPT !.result.documents[wf.i].content = content,
                                       !.i = @ + 1, !.doc_seq_counter = @ + 1]
             IN  /\ ~repair => fixed = doc.content
                 /\ obs' = [obs EXCEPT !.rendered = Append(@, seen)]
                 /\ IF o = "raise"
                    THEN /\ wf' = ReturnNone(wf, "render")
                         /\ reports' = reports
                    ELSE /\ reports' = [reports EXCEPT ![wf.patient_id] = @ \cup {base}]
                         /\ wf' = IF wf.i = Len(wf.result.documents)
                                  THEN [next EXCEPT !.pc = "persona"]
                                  ELSE next
    /\ UNCHANGED <<db, logs, persona_dir, documents, mn, call>>

\* create_persona_pdf when generation_mode asks for the persona
wf_persona ==
    /\ wf.pc = "persona"
    /\ IF wf.generation_mode.persona
       THEN \E o \in Outcomes :
              IF o = "raise"
              THEN /\ wf' = ReturnNone(wf, "persona")
                   /\ persona_dir' = persona_dir
              ELSE /\ wf' = [wf EXCEPT !.pc = "summary",
                               !.p_full_name = Name(FullName(wf.result.patient_persona))]
                   /\ persona_dir' = persona_dir \cup
                        {<<wf.patient_id, FullName(wf.result.patient_persona)>>}
       ELSE /\ wf' = [wf EXCEPT !.pc = "summary"]
            /\ persona_dir' = persona_dir
    /\ UNCHANGED <<db, logs, reports, documents, mn, obs, call>>

\* create_patient_summary_pdf when asked for, then
\* "return p_full_name if 'p_full_name' in locals() else None"
wf_summary ==
    /\ wf.pc = "summary"
    /\ IF wf.generation_mode.summary
       THEN \E o \in Outcomes :
              IF o = "raise"
              THEN /\ wf' = ReturnNone(wf, "summary")
                   /\ reports' = reports
              ELSE /\ wf' = [wf EXCEPT !.pc = "returned", !.ret = wf.p_full_name, !.why = "done"]
                   /\ reports' = [reports EXCEPT ![wf.patient_id] =
                                      @ \cup {SummaryFilename(wf.patient_id)}]
       ELSE /\ wf' = [wf EXCEPT !.pc = "returned", !.ret = wf.p_full_name, !.why = "done"]
            /\ reports' = reports
    /\ UNCHANGED <<db, logs, persona_dir, documents, mn, obs, call>>


\* -------------------------------------------------------------------- main
\* the call sites of process_patient_workflow are bounded by MaxMainRuns
CanRun == obs.runs < MaxMainRuns

\* single run: the mode and feedback prompts, a fresh read of the names,
\* then process_patient_workflow(target_input, feedback, ...)
main_single ==
    /\ mn.pc = "prompt" /\ wf.pc = "idle" /\ CanRun
    /\ \E id \in TargetIds, fb \in Feedbacks, mode \in Modes :
        /\ mn' = [mn EXCEPT !.pc = "single", !.target_input = id, !.bound = TRUE,
                            !.feedback = fb, !.generation_mode = mode,
                            !.current_names = get_all_patient_names(db)]
        /\ wf' = CallFrame(id, fb, get_all_patient_names(db), mode)
        /\ obs' = [StartObs(id) EXCEPT !.invoked = <<id>>, !.created = <<>>]
    /\ UNCHANGED <<db, logs, reports, persona_dir, documents, call>>

\* the workflow came back to the single-run call site: the final
\* check_patient_sync_status(target_input), or the exception ends main
main_single_return ==
    /\ mn.pc = "single" /\ wf.pc \in {"returned", "raised"}
    /\ IF wf.pc = "raised"
       THEN /\ mn' = [mn EXCEPT !.pc = "crashed"]
            /\ documents' = documents
       ELSE /\ mn' = [mn EXCEPT !.pc = "prompt"]
            /\ documents' = [documents EXCEPT ![mn.target_input] =
                                 SyncMigrate(mn.target_input, @)]
    /\ wf' = IdleFrame
    /\ obs' = EndObs
    /\ UNCHANGED <<db, logs, reports, persona_dir, call>>

\* '*': get_all_patient_ids, the names loaded once, count = 0
main_batch_start ==
    /\ mn.pc = "prompt" /\ wf.pc = "idle" /\ CanRun
    /\ mn' = [mn EXCEPT !.pc = "batch", !.target_input = "*",
                        !.current_names = get_all_patient_names(db),
                        !.p = 1, !.count = 0]
    /\ obs' = [obs EXCEPT !.invoked = <<>>, !.created = <<>>]
    /\ UNCHANGED <<db, logs, reports, persona_dir, documents, wf, call>>

\* a slip that hands every id to the workflow, complete or not
main_batch_next_NoSkip ==
    /\ mn.pc = "batch" /\ wf.pc = "idle" /\ mn.p <= Len(all_patient_ids)
    /\ CanRun
    /\ LET p_id == all_patient_ids[mn.p]
       IN  /\ documents' = [documents EXCEPT ![p_id] = SyncMigrate(p_id, @)]
           /\ mn' = mn
           /\ wf' = CallFrame(p_id, "", mn.current_names, DefaultMode)
           /\ obs' = StartObs(p_id)
    /\ UNCHANGED <<db, logs, reports, persona_dir, call>>

\* one id of "for p_id in all_ids": skipped when check_patient_sync_status
\* holds, otherwise handed to process_patient_workflow
main_batch_next ==
    /\ mn.pc = "batch" /\ wf.pc = "idle" /\ mn.p <= Len(all_patient_ids)
    /\ LET p_id == all_patient_ids[mn.p]
       IN  /\ documents' = [documents EXCEPT ![p_id] = SyncMigrate(p_id, @)]
           /\ IF check_patient_sync_status(p_id, documents[p_id])
              THEN /\ mn' = [mn EXCEPT !.p = @ + 1]
                   /\ UNCHANGED <<wf, obs>>
              ELSE /\ CanRun
                   /\ mn' = mn
                   /\ wf' = CallFrame(p_id, "", mn.current_names, DefaultMode)
                   /\ obs' = StartObs(p_id)
    /\ UNCHANGED <<db, logs, reports, persona_dir, call>>

\* the workflow came back to the batch loop: a returned name is appended to
\* current_names and count goes up; an exception leaves the loop and main
main_batch_return ==
    /\ mn.pc = "batch" /\ wf.pc \in {"returned", "raised"}
    /\ mn' = IF wf.pc = "raised"
             THEN [mn EXCEPT !.pc = "crashed"]
             ELSE [mn EXCEPT !.p = @ + 1, !.count = @ + 1,
                             !.current_names =
                                 IF wf.ret # NoValue THEN Append(@, wf.ret.name) ELSE @]
    /\ wf' = IdleFrame
    /\ obs' = [EndObs EXCEPT !.created =
                    IF wf.ret # NoValue /\ wf.existing_patient = NoValue
                    THEN Append(@, wf.ret.name) ELSE @]
    /\ UNCHANGED <<db, logs, reports, persona_dir, documents, call>>

\* after the loop control falls through to the shared call site:
\* process_patient_workflow('*', feedback, ..., generation_mode), which
\* raises NameError when no single run has bound feedback yet
main_batch_end ==
    /\ mn.pc = "batch" /\ wf.pc = "idle" /\ mn.p > Len(all_patient_ids)
    /\ IF ~mn.bound
       THEN /\ mn' = [mn EXCEPT !.pc = "crashed"]
            /\ UNCHANGED <<wf, obs>>
       ELSE /\ mn' = [mn EXCEPT !.pc = "fallthrough",
                                !.current_names = get_all_patient_names(db)]
            /\ wf' = CallFrame("*", mn.feedback, get_all_patient_names(db),
                               mn.generation_mode)
            /\ obs' = [StartObs("*") EXCEPT !.runs = obs.runs, !.created = <<>>]
    /\ UNCHANGED <<db, logs, reports, persona_dir, documents, call>>

\* back from the call with '*': no final verification, next prompt
main_fallthrough_return ==
    /\ mn.pc = "fallthrough" /\ wf.pc \in {"returned", "raised"}
    /\ mn' = [mn EXCEPT !.pc = IF wf.pc = "raised" THEN "crashed" ELSE "prompt"]
    /\ wf' = IdleFrame
    /\ obs' = EndObs
    /\ UNCHANGED <<db, logs, reports, persona_dir, documents, call>>

Next ==
    \/ wf_load_case
    \/ wf_load_context
    \/ wf_oracle(Personas, MainDocuments, MaxMainDocs)
    \/ wf_append_history
    \/ wf_save_patient
    \/ wf_document
    \/ wf_persona
    \/ wf_summary
    \/ main_single
    \/ main_single_return
    \/ main_batch_start
    \/ main_batch_next
    \/ main_batch_return
    \/ main_batch_end
    \/ main_fallthrough_return

Spec == Init /\ [][Next]_vars

\* main started on a store that is already filled
SpecFullStore == InitFullStore /\ [][Next]_vars


\* ------------------------------------------------- test_dry_run.py, main
\* one execution of the dry-run script: the first id of the plan, empty
\* feedback, no excluded names, generation_mode=None (the default mode)
dry_run ==
    /\ wf.pc = "idle" /\ obs.runs < MaxRuns
    /\ wf' = CallFrame(all_patient_ids[1], "", <<>>, DefaultMode)
    /\ obs' = [StartObs(all_patient_ids[1]) EXCEPT !.invoked = <<all_patient_ids[1]>>]
    /\ UNCHANGED <<db, logs, reports, persona_dir, documents, mn, call>>

\* the script reports the result (or the caught exception) and ends
dry_run_end ==
    /\ wf.pc \in {"returned", "raised"}
    /\ wf' = IdleFrame
    /\ obs' = EndObs
    /\ UNCHANGED <<db, logs, reports, persona_dir, documents, mn, call>>

NextDryRun ==
    \/ dry_run
    \/ wf_load_case
    \/ wf_load_context
    \/ wf_oracle(DryRunPersonas, Documents, MaxDocs)
    \/ wf_append_history
    \/ wf_save_patient
    \/ wf_document
    \/ wf_persona
    \/ wf_summary
    \/ dry_run_end

\* repeated executions of the dry-run script on the same output folders
SpecDryRun == InitDryRun /\ [][NextDryRun]_vars


\* the dry-run script with an oracle whose titles may hold a dash
NextDashedTitles ==
    \/ dry_run
    \/ wf_load_case
    \/ wf_load_context
    \/ wf_oracle(DryRunPersonas, DashedDocuments, MaxDocs)
    \/ wf_append_history
    \/ wf_save_patient
    \/ wf_document
    \/ wf_persona
    \/ wf_summary
    \/ dry_run_end

SpecDashedTitles == InitDryRun /\ [][NextDashedTitles]_vars


\* ------------------------------------------- validate_structure on its own
InitValidator ==
    /\ db = <<>>
    /\ InitRest
    /\ \A id \in WorkflowIds : documents[id] = {}
    /\ call \in {[pc |-> "called", fn |-> "validate_structure", arg |-> t,
                   ret |-> NoValue] : t \in ValidatorInputs}

\* is_valid, errors = validate_structure(document_text)
validate_call ==
    /\ call.pc = "called" /\ call.fn = "validate_structure"
    /\ call' = [call EXCEPT !.pc = "returned", !.ret = validate_structure(call.arg)]
    /\ UNCHANGED <<db, logs, reports, persona_dir, documents, mn, wf, obs>>

NextValidator == validate_call

SpecValidator == InitValidator /\ [][NextValidator]_vars


\* ------------------------------- the identity constraint on its own
\* the record handed in (or none) and the names handed in
ConstraintInputs ==
    [existing_persona : Personas \cup {NoValue},
     excluded_names : {get_all_patient_names(StoreOf(n)) : n \in 0..(MaxStored + 1)}]

InitConstraint ==
    /\ db = <<>>
    /\ InitRest
    /\ \A id \in WorkflowIds : documents[id] = {}
    /\ call \in {[pc |-> "called", fn |-> "identity_constraint", arg |-> a,
                   ret |-> NoValue] : a \in ConstraintInputs}

\* the identity constraint generate_clinical_data puts into its prompt
constraint_call ==
    /\ call.pc = "called" /\ call.fn = "identity_constraint"
    /\ \E selected_universe \in CHARACTER_UNIVERSES :
          call' = [call EXCEPT !.pc = "returned",
                               !.ret = identity_prompt(call.arg.existing_persona,
                                                       call.arg.excluded_names,
                                                       selected_universe)]
    /\ UNCHANGED <<db, logs, reports, persona_dir, documents, mn, wf, obs>>

NextConstraint == constraint_call

SpecConstraint == InitConstraint /\ [][NextConstraint]_vars


\* ------------------------------- a file name written and scanned back
RoundTripIds == {"300", "300-1"}
RoundTripTitles == {"A", "A-B", "A-NAF"}

InitRoundTrip ==
    /\ db = <<>>
    /\ InitRest
    /\ \A id \in WorkflowIds : documents[id] = {}
    /\ call \in {[pc |-> "called", fn |-> "create_patient_pdf", arg |-> a,
                   ret |-> NoValue, folder |-> <<>>] :
                      a \in [patient_id : RoundTripIds, seq : 1..MaxInt,
                             title_hint : RoundTripTitles, naf : BOOLEAN]}

\* the workflow builds final_filename_base and create_patient_pdf writes
\* f"{doc_type}.pdf" into the patient's report folder
roundtrip_write ==
    /\ call.fn = "create_patient_pdf" /\ call.pc = "called"
    /\ call' = [call EXCEPT
                  !.pc = "written",
                  !.folder = <<[stem |-> FilenameBase(call.arg.patient_id, call.arg.seq,
                                                      call.arg.title_hint, call.arg.naf),
                                ext |-> "pdf"]>>]
    /\ UNCHANGED <<db, logs, reports, persona_dir, documents, mn, wf, obs>>

\* scan_existing_documents on that folder
roundtrip_scan ==
    /\ call.fn = "create_patient_pdf" /\ call.pc = "written"
    /\ call' = [call EXCEPT !.pc = "returned",
                            !.ret = scan_listing(call.arg.patient_id, call.folder)]
    /\ UNCHANGED <<db, logs, reports, persona_dir, documents, mn, wf, obs>>

NextRoundTrip == roundtrip_write \/ roundtrip_scan

SpecRoundTrip == InitRoundTrip /\ [][NextRoundTrip]_vars


\* ------------------------------ two processes in save_patient at once
\* Each process is at "read" (before json.load), "write" (it holds
\* current_db and has yet to write the file back) or "done".
SaverIds == <<"300", "301">>
Savers == DOMAIN SaverIds

\* the stores the file may hold when the two calls start
StoresBefore ==
    {<<>>} \cup {save_patient(<<>>, id, d) : id \in CaseIds, d \in Personas}
           \cup {save_patient(save_patient(<<>>, "300", d1), "301", d2) :
                     d1, d2 \in Personas}

InitConcurrentSave ==
    /\ db \in StoresBefore
    /\ InitRest
    /\ \A id \in WorkflowIds : documents[id] = {}
    /\ call \in {[pc |-> "called", fn |-> "save_patient",
                   arg |-> [s \in Savers |->
                               [patient_id |-> SaverIds[s], patient_data |-> d[s]]],
                   ret |-> NoValue,
                   at |-> [s \in Savers |-> "read"],
                   current_db |-> [s \in Savers |-> <<>>]] : d \in [Savers -> Personas]}

\* with open(DB_PATH, 'r') as f: current_db = json.load(f)
save_read(s) ==
    /\ call.fn = "save_patient" /\ call.at[s] = "read"
    /\ call' = [call EXCEPT !.at[s] = "write", !.current_db[s] = db]
    /\ UNCHANGED <<db, logs, reports, persona_dir, documents, mn, wf, obs>>

\* the update of the process's own copy and json.dump(current_db, f)
save_write(s) ==
    /\ call.fn = "save_patient" /\ call.at[s] = "write"
    /\ db' = save_patient(call.current_db[s], call.arg[s].patient_id,
                          call.arg[s].patient_data)
    /\ call' = [call EXCEPT !.at[s] = "done",
                            !.pc = IF \A t \in Savers \ {s} : call.at[t] = "done"
                                   THEN "returned" ELSE @]
    /\ UNCHANGED <<logs, reports, persona_dir, documents, mn, wf, obs>>

NextConcurrentSave ==
    \/ \E s \in Savers : save_read(s)
    \/ \E s \in Savers : save_write(s)

SpecConcurrentSave == InitConcurrentSave /\ [][NextConcurrentSave]_vars


\* ------------------------------------------ the index scan on its own
\* files a report folder may hold: well-formed ones, a degraded one of the
\* same title, a title of two parts, and files the scan has to pass over
ScanFiles ==
    {[stem |-> <<"DOC", "300", "001", "A">>, ext |-> "pdf"],
     [stem |-> <<"DOC", "300", "002", "A", "NAF">>, ext |-> "pdf"],
     [stem |-> <<"DOC", "300", "003", "B">>, ext |-> "pdf"],
     [stem |-> <<"DOC", "300", "002", "A", "B">>, ext |-> "pdf"],
     [stem |-> <<"DOC", "300", "xyz", "B">>, ext |-> "pdf"],
     [stem |-> <<"DOC", "300", "004">>, ext |-> "pdf"],
     [stem |-> <<"DOC", "301", "005", "A">>, ext |-> "pdf"],
     [stem |-> <<"DOC", "300", "006", "C">>, ext |-> "txt"],
     [stem |-> <<"Clinical_Summary_Patient_300">>, ext |-> "pdf"]}

\* os.listdir of a folder: its files once each, in some order
Listings ==
    {l \in SeqsUpTo(ScanFiles, MaxFiles) :
        \A i, j \in DOMAIN l : i # j => l[i] # l[j]}

PdfStems(listing) == {f.stem : f \in {g \in Range(listing) : g.ext = "pdf"}}

\* the report folder of patient 300 holds the .pdf files of the listing
InitScan ==
    /\ db = <<>>
    /\ logs = [id \in WorkflowIds |-> <<>>]
    /\ persona_dir = {}
    /\ documents = [id \in WorkflowIds |-> {}]
    /\ mn = [pc |-> "prompt", target_input |-> "", bound |-> FALSE, feedback |-> "",
             generation_mode |-> DefaultMode, current_names |-> <<>>,
             p |-> 0, count |-> 0]
    /\ wf = IdleFrame
    /\ obs = [runs |-> 0, docs |-> 0, db0 |-> <<>>, logs0 |-> <<>>, reports0 |-> <<>>,
              persona0 |-> {}, rendered |-> <<>>, invoked |-> <<>>, created |-> <<>>]
    /\ \E l \in Listings :
          /\ call = [pc |-> "called", fn |-> "scan_existing_documents",
                     arg |-> [patient_id |-> "300", listing |-> l],
                     ret |-> NoValue, again |-> NoValue]
          /\ reports = [id \in WorkflowIds |->
                           IF id = "300" THEN PdfStems(l) ELSE {}]

\* scan_existing_documents(patient_id, report_folder)
scan_call ==
    /\ call.pc = "called" /\ call.fn = "scan_existing_documents"
    /\ call' = [call EXCEPT !.pc = "returned",
                            !.ret = scan_listing(call.arg.patient_id,
                                                 call.arg.listing)]
    /\ UNCHANGED <<db, logs, reports, persona_dir, documents, mn, wf, obs>>

\* the same call once more on the same folder
scan_repeat ==
    /\ call.pc = "returned" /\ call.fn = "scan_existing_documents"
    /\ call' = [call EXCEPT !.pc = "repeated",
                            !.again = scan_listing(call.arg.patient_id,
                                                   call.arg.listing)]
    /\ UNCHANGED <<db, logs, reports, persona_dir, documents, mn, wf, obs>>

NextScan == scan_call \/ scan_repeat

SpecScan == InitScan /\ [][NextScan]_vars


\* ================================================================ claims
\* vocabulary of the claims: the run in progress and the document index of
\* a folder as scan_existing_documents recovers it
RunId == wf.patient_id
InRun == wf.pc \notin {"idle"}
Index0 == scan_existing_documents(RunId, obs.reports0[RunId])
IndexNow == scan_existing_documents(RunId, reports[RunId])
TitlesOf(index) == {e.title : e \in index.docs}
SeqsOf(index) == {e.seq : e \in index.docs}
SeqsOfTitle(index, title) == {e.seq : e \in {d \in index.docs : d.title = title}}
RenderedSeq(r) == ScanEntry(RunId, r.filename).seq
IsCreate(r) == SplitDash(r.title_hint) \notin TitlesOf(Index0)
CreatesUpTo(k) == {j \in 1..k : IsCreate(obs.rendered[j])}
\* the file name itself ends in -NAF
IsNafFile(f) == Len(f) >= 5 /\ Last(f) = "NAF"
NoTitleTwice(index) ==
    \A e1, e2 \in index.docs : e1.title = e2.title => e1.filename = e2.filename
Aborted == \/ wf.pc = "raised"
           \/ wf.pc = "returned" /\ wf.why # "done"

\* C1: a candidate whose title is not in the index at the start of the run
\* (CREATE) is rendered at maxSequence+1, +2, ... in candidate order, so above
\* every sequence number the folder held before the run.
C1_CreateAfterMaxSequence ==
    InRun =>
        \A k \in DOMAIN obs.rendered :
            IsCreate(obs.rendered[k]) =>
                RenderedSeq(obs.rendered[k]) = Index0.max_seq + Cardinality(CreatesUpTo(k))

\* C2: a candidate whose title is in the index at the start of the run
\* (UPDATE) is rendered at the sequence number recorded for that title.
C2_UpdateKeepsSequence ==
    InRun =>
        \A k \in DOMAIN obs.rendered :
            ~IsCreate(obs.rendered[k]) =>
                RenderedSeq(obs.rendered[k])
                    \in SeqsOfTitle(Index0, SplitDash(obs.rendered[k].title_hint))

\* C3: when the oracle returns only titles that already exist (a subset, each
\* once), the rerun adds no sequence number to the folder and leaves no
\* title in more than one artifact filename.
OnlyKnownTitles ==
    /\ wf.result # NoResult
    /\ \A i \in DOMAIN wf.result.documents :
          /\ SplitDash(wf.result.documents[i].title_hint) \in TitlesOf(Index0)
          /\ \A j \in DOMAIN wf.result.documents :
                wf.result.documents[i].title_hint = wf.result.documents[j].title_hint
                    => i = j
C3_IdempotentRerun ==
    (InRun /\ OnlyKnownTitles /\ NoTitleTwice(Index0)) =>
        /\ SeqsOf(IndexNow) \subseteq SeqsOf(Index0)
        /\ NoTitleTwice(IndexNow)

\* C4: no two artifact files of a patient carry the same sequence number
\* with different titles.
C4_SequenceUniquePerPatient ==
    \A id \in WorkflowIds :
        \A e1, e2 \in scan_existing_documents(id, reports[id]).docs :
            e1.seq = e2.seq => e1.title = e2.title

\* C5: identity lock - when a record existed at the start of the run, its
\* identity fields are the same after the run, whatever the oracle returned.
C5_IdentityLock ==
    (wf.pc = "returned" /\ HasKey(obs.db0, RunId)) =>
        \A k \in IdentityFields :
            load_patient(db, RunId)[k] = load_patient(obs.db0, RunId)[k]

C7_NafRoundTrip ==
    InRun =>
        \A k \in DOMAIN obs.rendered :
            LET r == obs.rendered[k]
                degraded0 == {e \in Index0.docs :
                                /\ e.title = SplitDash(r.title_hint)
                                /\ IsNafFile(e.filename)}
            IN  (r.written /\ (r.valid1 \/ r.valid2) /\ degraded0 # {}) =>
                    /\ RenderedSeq(r) \in {e.seq : e \in degraded0}
                    /\ \A e \in IndexNow.docs :
                          e.title = SplitDash(r.title_hint) => ~IsNafFile(e.filename)

\* C8: the Identity Store and the History Log are written only after every
\* candidate was rendered; a run that aborts earlier leaves both as they
\* were before the run.
C8_StoresWrittenLast ==
    (wf.pc \in {"load_case", "load_context", "oracle", "history", "save", "documents"}
        \/ (Aborted /\ wf.why \in {"load_case", "case_not_found", "load_context",
                                   "oracle", "history", "save", "render"})) =>
        /\ db = obs.db0
        /\ logs = obs.logs0

\* C9: when the patient id is absent from the case source, or the oracle call
\* raises, the run returns None and the Identity Store, the History Log and
\* the artifact folders are as before the run.
C9_AbortTouchesNothing ==
    (wf.pc = "returned" /\ (RunId \notin CaseIds \/ wf.why = "oracle")) =>
        /\ wf.ret = NoValue
        /\ db = obs.db0
        /\ logs = obs.logs0
        /\ reports = obs.reports0
        /\ persona_dir = obs.persona0

\* the oracle raised in a rerun of a patient with a record, a log and files
C9_Witness ==
    /\ wf.pc = "returned" /\ wf.why = "oracle"
    /\ HasKey(db, RunId)
    /\ logs[RunId] # <<>>
    /\ reports[RunId] # {}

\* C10: in a batch a failure of one patient's workflow at any step never
\* stops the batch - every later incomplete id is still handed to the workflow.
C10_BatchSurvivesFailure ==
    (mn.pc = "crashed" /\ mn.target_input = "*") =>
        \A j \in (mn.p + 1)..Len(all_patient_ids) :
            check_patient_sync_status(all_patient_ids[j], documents[all_patient_ids[j]])


\* C11: when the renderer fails for one candidate, only that document is
\* lost - every later candidate of the run is still validated and handed to
\* the renderer, so a finished run has tried every candidate.
C11_RenderFailureIsDocumentScoped ==
    (wf.pc = "returned" /\ \E k \in DOMAIN obs.rendered : ~obs.rendered[k].written) =>
        Len(obs.rendered) = Len(wf.result.documents)

\* C12: when the oracle returns an empty document list the run appends its
\* History Log entry, ends successfully and creates or overwrites no artifact
\* file: no document, no persona PDF, no summary PDF.
C12_EmptyListIsNoOp ==
    (wf.pc = "returned" /\ wf.why = "done" /\ wf.result.documents = <<>>) =>
        /\ logs[RunId] = Append(obs.logs0[RunId],
                                HistoryEntry(wf.feedback, wf.result.changes_summary))
        /\ reports = obs.reports0
        /\ persona_dir = obs.persona0

\* C13: a run that aborts without having produced a document never appends
\* to the History Log.
C13_FailedRunLeavesHistory ==
    (Aborted /\ \A k \in DOMAIN obs.rendered : ~obs.rendered[k].written) =>
        logs = obs.logs0


\* C15: the batch visits the ids in the order of the id list, one at a time;
\* an id is handed to the workflow exactly once when it is incomplete at that
\* moment and not at all when it is complete, and the workflow of one id has
\* returned before the next id is examined.
Incomplete(id) == ~check_patient_sync_status(id, documents[id])
C15_BatchVisitsInOrder ==
    mn.pc = "batch" =>
        /\ obs.invoked =
             SelectSeq(SubSeq(all_patient_ids, 1,
                              IF wf.pc = "idle" THEN mn.p - 1 ELSE mn.p),
                       Incomplete)
        /\ wf.pc # "idle" => wf.patient_id = all_patient_ids[mn.p]

\* a batch that skipped the complete first id and ran the second to its end
C15_Witness ==
    /\ mn.pc = "batch" /\ wf.pc = "idle"
    /\ mn.p = Len(all_patient_ids) + 1
    /\ ~Incomplete(all_patient_ids[1])
    /\ obs.invoked = <<all_patient_ids[2]>>
    /\ mn.count = 1

\* C16: every run in which the oracle returns a payload appends exactly one
\* entry (feedback, change summary) to that patient's log, also when a
\* document ends up degraded; the earlier entries stay in front of it
\* unchanged and no other patient's log changes.
C16_OneHistoryEntryPerRun ==
    (InRun /\ wf.result # NoResult /\ wf.pc # "history"
           /\ ~(wf.pc = "returned" /\ wf.why = "history")) =>
        logs = [obs.logs0 EXCEPT ![RunId] =
                   Append(@, HistoryEntry(wf.feedback, wf.result.changes_summary))]

\* a rerun that left a degraded document and the second entry of the log
C16_Witness ==
    /\ wf.pc = "returned" /\ wf.why = "done"
    /\ Len(logs[RunId]) = 2
    /\ \E k \in DOMAIN obs.rendered :
          obs.rendered[k].written /\ IsNafFile(obs.rendered[k].filename)

\* C18: process_patient_workflow returns the persona's "First Last" whenever
\* the run completes, in every generation mode, and None only when it aborted.
C18_ReturnsNameWhenCompleted ==
    wf.pc = "returned" =>
        IF wf.why = "done"
        THEN wf.ret = Name(FullName(wf.result.patient_persona))
        ELSE wf.ret = NoValue


\* C17: a run for a patient with no record and no artifacts, to which the
\* oracle returned k >= 1 documents, has on completion rendered them in the
\* oracle's order under the sequence numbers 001..k (the i-th document at i),
\* created the patient's Identity Store entry and appended one History Log
\* entry.
FreshRunCompleted ==
    /\ wf.pc = "returned" /\ wf.why = "done"
    /\ ~HasKey(obs.db0, RunId)
    /\ obs.reports0[RunId] = {}
    /\ Len(wf.result.documents) >= 1
FreshRunOutcome ==
    /\ Len(obs.rendered) = Len(wf.result.documents)
    /\ \A i \in DOMAIN obs.rendered :
          /\ obs.rendered[i].title_hint = wf.result.documents[i].title_hint
          /\ RenderedSeq(obs.rendered[i]) = i
          /\ obs.rendered[i].filename \in reports[RunId]
    /\ {f \in reports[RunId] : HasDocPrefix(RunId, f)}
          = {obs.rendered[i].filename : i \in DOMAIN obs.rendered}
    /\ HasKey(db, RunId)
    /\ \A k \in DOMAIN wf.result.patient_persona :
          load_patient(db, RunId)[k] = wf.result.patient_persona[k]
    /\ logs[RunId] = Append(obs.logs0[RunId],
                            HistoryEntry(wf.feedback, wf.result.changes_summary))
C14_ExclusionSetGrowth ==
    (mn.pc = "batch" /\ wf.identity_constraint # NoValue
                     /\ wf.existing_patient = NoValue) =>
        /\ wf.identity_constraint.kind = "generate"
        /\ \A n \in Range(obs.created) : n \in Range(wf.identity_constraint.used)


\* C19: validate_structure checks every rule on its own: the error list holds
\* exactly one entry per violated rule - start marker, end marker, metadata
\* block, the five required keys, triple quotes, redaction, and bold when it
\* is forbidden - in that order, none for a satisfied rule, and the validity
\* flag is true exactly when the list is empty.
Rules ==
    <<[msg |-> "Missing Start Marker", token |-> StartMarker, wanted |-> TRUE,
       on |-> TRUE],
      [msg |-> "Missing End Marker", token |-> EndMarker, wanted |-> TRUE,
       on |-> TRUE],
      [msg |-> "Missing [REPORT_METADATA]", token |-> MetadataMarker, wanted |-> TRUE,
       on |-> VALIDATION_CONFIG.require_metadata_block],
      [msg |-> "Missing Metadata Field: PATIENT_ID:", token |-> "PATIENT_ID:",
       wanted |-> TRUE, on |-> TRUE],
      [msg |-> "Missing Metadata Field: MRN:", token |-> "MRN:",
       wanted |-> TRUE, on |-> TRUE],
      [msg |-> "Missing Metadata Field: PATIENT_NAME:", token |-> "PATIENT_NAME:",
       wanted |-> TRUE, on |-> TRUE],
      [msg |-> "Missing Metadata Field: DOB:", token |-> "DOB:",
       wanted |-> TRUE, on |-> TRUE],
      [msg |-> "Missing Metadata Field: REPORT_DATE:", token |-> "REPORT_DATE:",
       wanted |-> TRUE, on |-> TRUE],
      [msg |-> "Triple quotes detected", token |-> "\"\"\"", wanted |-> FALSE,
       on |-> ~VALIDATION_CONFIG.allow_triple_quotes],
      [msg |-> "Redaction detected", token |-> "Redacted", wanted |-> FALSE,
       on |-> TRUE],
      [msg |-> "Markdown bold detected", token |-> "**", wanted |-> FALSE,
       on |-> ~VALIDATION_CONFIG.allow_markdown_bold]>>
RuleViolated(text, rule) ==
    rule.on /\ ((rule.token \in Range(text)) # rule.wanted)
ViolatedRules(text) == SelectSeq(Rules, LAMBDA rule : RuleViolated(text, rule))
Validated == call.pc = "returned" /\ call.fn = "validate_structure"
C19_EveryRuleReported ==
    Validated =>
        /\ Len(call.ret.errors) = Len(ViolatedRules(call.arg))
        /\ \A i \in DOMAIN call.ret.errors :
              call.ret.errors[i] = ViolatedRules(call.arg)[i].msg
        /\ call.ret.is_valid <=> (call.ret.errors = <<>>)

\* a text without markers and with a redaction: three rules of three groups
\* are reported together, the permitted bold is not
C19_Witness ==
    /\ Validated
    /\ "**" \in Range(call.arg)
    /\ call.ret.errors = <<"Missing Start Marker", "Missing End Marker",
                           "Redaction detected">>
    /\ ~call.ret.is_valid

\* C20: a document is valid only if its content begins with the start marker
\* and ends with the end marker; text in front of the start marker or behind
\* the end marker makes it invalid.
C20_ValidBeginsAndEndsWithMarkers ==
    (Validated /\ call.ret.is_valid) =>
        /\ call.arg[1] = StartMarker
        /\ Last(call.arg) = EndMarker


\* C21: the repair loop is bounded - for each candidate the repair oracle is
\* called exactly once when the first validation fails and never when it
\* passes, the repaired content is validated exactly once more, and nothing
\* further is tried whatever the second result: at most one repair call and
\* two validation passes per document and run.
C21_RepairBounded ==
    InRun =>
        \A k \in DOMAIN obs.rendered :
            LET r == obs.rendered[k]
            IN  /\ r.i = k
                /\ r.repairs = (IF r.valid1 THEN 0 ELSE 1)
                /\ r.validations = 1 + r.repairs
                /\ r.valid1 => r.content = wf.result.documents[k].content
                /\ r.valid2 = validate_structure(r.content).is_valid

\* one run repaired two candidates once each: one came out valid, the other
\* stayed invalid and was rendered degraded without a further attempt
C21_Witness ==
    /\ wf.pc = "persona"
    /\ \E j, k \in DOMAIN obs.rendered :
          /\ obs.rendered[j].repairs = 1 /\ obs.rendered[j].valid2
          /\ obs.rendered[k].repairs = 1 /\ ~obs.rendered[k].valid2
          /\ obs.rendered[k].written /\ IsNafFile(obs.rendered[k].filename)


\* C22: the identity constraint is a lock exactly when a record is handed
\* in, and then carries the stored name, DOB, gender, address, telecom and
\* provider verbatim and no exclusion list; otherwise it is a diversity
\* descriptor naming one universe of the catalog and the first min(50, n)
\* names of the exclusion list in their order.
Constrained == call.pc = "returned" /\ call.fn = "identity_constraint"
C22_LockOrDiversity ==
    Constrained =>
        LET p == call.arg.existing_persona
            names == call.arg.excluded_names
            c == call.ret
        IN  IF p # NoValue
            THEN /\ c.kind = "lock"
                 /\ c.name = p.first_name \o " " \o p.last_name
                 /\ \A k \in {"dob", "gender", "address", "telecom", "provider"} :
                       c[k] = p[k]
                 /\ DOMAIN c = {"kind", "name", "dob", "gender", "address",
                                "telecom", "provider"}
            ELSE /\ c.kind = "generate"
                 /\ c.universe \in CHARACTER_UNIVERSES
                 /\ Len(c.used) = (IF Len(names) < 50 THEN Len(names) ELSE 50)
                 /\ \A i \in DOMAIN c.used : c.used[i] = names[i]

\* a diversity descriptor for a list of more than 50 names
C22_Witness ==
    /\ Constrained
    /\ call.arg.existing_persona = NoValue
    /\ Len(call.arg.excluded_names) > 50
    /\ Len(call.ret.used) = 50
    /\ call.ret.used[50] = "Extra 50"

\* a lock descriptor for a stored record handed in with a list of names
C22_WitnessLock ==
    /\ Constrained
    /\ call.arg.existing_persona = Persona2
    /\ call.arg.excluded_names # <<>>
    /\ call.ret.name = "Leslie Knope"


\* C23: the index scan returns for every folder, changes nothing and gives
\* the same result when repeated; its map has exactly the titles (a trailing
\* -NAF removed) of the .pdf files with prefix DOC-{patientId}- that have at
\* least 4 dash-separated parts and an integer third part, each title with
\* the sequence and name of the file of that title listed last, every such
\* file being in the map when no two share a title; maxSequence is the
\* largest sequence among those files, 0 if there is none.
Scanned == call.fn = "scan_existing_documents" /\ call.pc \in {"returned", "repeated"}
TitleOfStem(stem) ==
    LET t == SubSeq(stem, 4, Len(stem))
    IN  IF Len(t) >= 2 /\ t[Len(t)] = "NAF" THEN SubSeq(t, 1, Len(t) - 1) ELSE t
Qualifying(patient_id, listing) ==
    {i \in DOMAIN listing :
        LET f == listing[i]
        IN  /\ f.ext = "pdf"
            /\ Len(f.stem) >= 4
            /\ f.stem[1] = "DOC" /\ f.stem[2] = patient_id
            /\ ParseInt(f.stem[3]) # NoInt}
OracleTitles == {SplitDash(wf.result.documents[i].title_hint) :
                    i \in DOMAIN wf.result.documents}
FilesOfOtherTitles ==
    {f \in obs.reports0[RunId] :
        /\ HasDocPrefix(RunId, f) /\ Len(f) >= 4
        /\ TitleOfStem(f) \notin OracleTitles}
WrittenNames == {obs.rendered[k].filename :
                    k \in {j \in DOMAIN obs.rendered : obs.rendered[j].written}}
C24_OtherTitlesUntouched ==
    (InRun /\ wf.result # NoResult) =>
        \A f \in FilesOfOtherTitles :
            f \in reports[RunId] /\ f \notin WrittenNames


\* C25: after a batch command has gone through the id set, control returns
\* to the prompt: process_patient_workflow is never called with '*' as the
\* patient id, and main does not end on reading feedback or generation_mode
\* that the batch path never set.
C25_BatchReturnsToPrompt ==
    /\ InRun => RunId # "*"
    /\ (mn.pc = "crashed" /\ mn.target_input = "*") => mn.p <= Len(all_patient_ids)


\* C26: once a workflow run for a patient id has rendered at least one
\* document PDF, check_patient_sync_status(id) returns True, so a later
\* batch run skips that id.
C26_RenderedMeansComplete ==
    (wf.pc = "returned" /\ \E k \in DOMAIN obs.rendered : obs.rendered[k].written)
        => check_patient_sync_status(RunId, documents[RunId])


\* C27: throughout a batch run, after each patient has been processed, the
\* in-memory exclusion list holds the display name of every persona stored
\* in the Identity Store, also when a workflow saved its persona and then
\* aborted in a later step.
C27_ExclusionListCoversStore ==
    (mn.pc = "batch" /\ wf.pc = "idle") =>
        Range(get_all_patient_names(db)) \subseteq Range(mn.current_names)


\* C28: two save_patient operations for two different patient ids, run by
\* two processes with interleaved read and write steps, lose no update:
\* once both have completed, the Identity Store holds the record written
\* for each of the two ids.
C28_NoLostUpdate ==
    (call.fn = "save_patient" /\ call.pc = "returned") =>
        \A s \in Savers :
            /\ HasKey(db, call.arg[s].patient_id)
            /\ \A k \in DOMAIN call.arg[s].patient_data :
                  load_patient(db, call.arg[s].patient_id)[k]
                      = call.arg[s].patient_data[k]


\* C29: filename round trip - for every patient id, sequence number, title
\* and degraded flag, scanning a folder that holds the file
\* DOC-{patientId}-{seq:03d}-{title}[-NAF].pdf written by the workflow
\* recovers exactly that sequence number and that title, also when the id
\* or the title holds a '-' or the title ends in '-NAF'.
C29_FilenameRoundTrip ==
    (call.fn = "create_patient_pdf" /\ call.pc = "returned") =>
        LET m == call.ret.existing_docs_map
            title == SplitDash(call.arg.title_hint)
        IN  /\ DOMAIN m = {title}
            /\ m[title].seq = call.arg.seq
            /\ call.ret.max_seq = call.arg.seq


\* C30: every workflow run reaches a terminal outcome by returning (a name
\* or None) after handling each candidate document at most once, and a
\* batch run is over only after it has examined each patient id of the id
\* set once.
C30_RunsAndBatchFinish ==
    /\ wf.pc # "raised"
    /\ InRun => \A k \in DOMAIN obs.rendered : obs.rendered[k].i = k
    /\ (mn.target_input = "*" /\ mn.pc # "batch") => mn.p = Len(all_patient_ids) + 1


====
